---- MODULE Spec2Model ----
(***************************************************************************)
(* gcode-cli: the buffered line reader (buffered-line-reader.h/.cc) and    *)
(* the send/acknowledge loop of main() (main.cc).                          *)
(*                                                                         *)
(* Bytes are one-character strings.  A buffer is a sequence of bytes; a    *)
(* pointer into it is a 0-based offset, so the byte at offset k is         *)
(* buffer[k+1].  A std::string_view is a record [pos, len] over a buffer.  *)
(***************************************************************************)
EXTENDS Integers, Sequences, FiniteSets, TLC

\* ------------------------------------------------------------------------
\* Bounds of the model
\* ------------------------------------------------------------------------

\* Largest value of the -b option (block_buffer_count) that is explored.
MaxBlockBufferCount == 2

\* Number of read() calls on the machine's descriptor the device answers
\* with data, end-of-stream or an error; after that the device stays silent.
MaxResponseReads == 3

\* Size of the gcode reader's buffer in the model (1 << 20 in main.cc).
GcodeBufferSize == 6

\* Size of the response reader's buffer in the model.
ResponseBufferSize == 8

\* Largest buffer_size of a BufferedLineReader exercised on its own.
MaxReaderBufferSize == 4

\* Largest n of a ReadNextLines(n) call on a reader exercised on its own.
MaxBatch == 2

\* DiscardPendingInput: the largest timeout_ms explored, the steps of time
\* told apart within one millisecond, and the most bytes on their way.
MaxTimeoutMs == 2

TicksPerMs == 2

MaxArrivals == 2

\* WaitForOkAck: the size of its line buffer (512 in the program).
AckBufferSize == 6

\* ------------------------------------------------------------------------
\* Small helpers
\* ------------------------------------------------------------------------

Min(S) == CHOOSE x \in S : \A y \in S : x <= y

Max(S) == CHOOSE x \in S : \A y \in S : x >= y

\* memmove/read/store: seq written into buf starting at offset off.
WriteAt(buf, off, seq) ==
    [i \in 1..Len(buf) |->
        IF off < i /\ i <= off + Len(seq) THEN seq[i - off] ELSE buf[i]]

\* The empty std::string_view {}.
EmptyView == [pos |-> 0, len |-> 0]

\* The bytes a string_view denotes in the buffer it points into.
ViewText(buf, v) == SubSeq(buf, v.pos + 1, v.pos + v.len)

\* Mutant of isspace: '\r' does not count as whitespace.
isspace_NoCarriageReturn(c) == c \in {" ", "\t", "\n", "\f"}

\* isspace() of <ctype.h> in the C locale, on the bytes of the model.
isspace(c) == c \in {" ", "\t", "\n", "\r", "\f"}

\* The result of one read(2) call: r > 0 bytes, 0 at end-of-stream, -1 on error.
ReadData(bytes) == [r |-> Len(bytes), bytes |-> bytes]

ReadEof == [r |-> 0, bytes |-> <<>>]

ReadErr == [r |-> -1, bytes |-> <<>>]

\* ------------------------------------------------------------------------
\* BufferedLineReader
\* ------------------------------------------------------------------------

\* BufferedLineReader::BufferedLineReader: an empty window at the buffer's
\* start; the buffer itself is uninitialised ("?" bytes).  The model keeps
\* one cell more than new char[buffer_size] allocates: the byte behind the
\* allocation, which only the store "*data_end_++ = '\n'" of Refill can
\* reach (when the remainder fills the whole buffer).
NewReader(buffer_size, remove_comments) ==
    [buffer           |-> [i \in 1..(buffer_size + 1) |-> "?"],
     buffer_size_     |-> buffer_size,
     remove_comments_ |-> remove_comments,
     eof_             |-> FALSE,
     data_begin_      |-> 0,
     data_end_        |-> 0,
     remainder_       |-> EmptyView]

\* is_eof()
is_eof(rd) == rd.eof_

\* The count argument of the read() call in Refill.
ReadCount(rd) == rd.buffer_size_ - rd.remainder_.len

\* Mutant of MakeCommentFreeLine: the comment is never cut off.
MakeCommentFreeLine_KeepsComments(buf, first, last, remove_comments) ==
    LET solid  == {k \in first..last : ~isspace(buf[k + 1])}
        first2 == IF solid = {} THEN last + 1 ELSE Min(solid)
        last2  == IF solid = {} THEN first2 - 1 ELSE Max(solid)
    IN  IF last2 < first2
          THEN [buffer |-> buf, line |-> EmptyView]
          ELSE [buffer |-> WriteAt(buf, last2 + 1, <<"\n">>),
                line   |-> [pos |-> first2, len |-> last2 - first2 + 2]]

\* BufferedLineReader::MakeCommentFreeLine(first, last): last is the offset
\* of the terminator.  Returns the buffer (a fresh newline is stored behind
\* the content) and the resulting view.
MakeCommentFreeLine(buf, first, last, remove_comments) ==
    LET comments == {k \in first..last : buf[k + 1] = ";"}
        last1  == IF remove_comments /\ comments # {}
                    THEN Min(comments) - 1 ELSE last
        solid  == {k \in first..last1 : ~isspace(buf[k + 1])}
        first2 == IF solid = {} THEN last1 + 1 ELSE Min(solid)
        last2  == IF solid = {} THEN first2 - 1 ELSE Max(solid)
    IN  IF last2 < first2
          THEN [buffer |-> buf, line |-> EmptyView]
          ELSE [buffer |-> WriteAt(buf, last2 + 1, <<"\n">>),
                line   |-> [pos |-> first2, len |-> last2 - first2 + 2]]

\* Mutant of FindTerminator: only '\n' ends a line.
FindTerminator_NewlineOnly(buf, from, to) ==
    LET hits == {k \in from..(to - 1) : buf[k + 1] = "\n"}
    IN  IF hits = {} THEN to ELSE Min(hits)

\* std::find_if(data_begin_, data_end_, c == '\n' || c == '\r')
FindTerminator(buf, from, to) ==
    LET hits == {k \in from..(to - 1) : buf[k + 1] \in {"\n", "\r"}}
    IN  IF hits = {} THEN to ELSE Min(hits)

\* Mutant of Refill: the test "if (eof_) return false" is missing, so the
\* descriptor is read again after its end or an error.
Refill_ReadsAfterEof(rd, in) ==
    LET rem   == rd.remainder_
        moved == IF rem.len > 0
                   THEN WriteAt(rd.buffer, 0, ViewText(rd.buffer, rem))
                   ELSE rd.buffer
    IN  IF in.r > 0
          THEN [reader |-> [rd EXCEPT !.buffer = WriteAt(moved, rem.len, in.bytes),
                                      !.data_begin_ = 0,
                                      !.data_end_ = rem.len + in.r,
                                      !.remainder_ = EmptyView],
                ret    |-> TRUE,
                perror |-> FALSE]
        ELSE [reader |-> [rd EXCEPT !.buffer = IF rem.len > 0
                                                 THEN WriteAt(moved, rem.len, <<"\n">>)
                                                 ELSE moved,
                                    !.eof_ = TRUE,
                                    !.data_begin_ = 0,
                                    !.data_end_ = IF rem.len > 0 THEN rem.len + 1 ELSE 0,
                                    !.remainder_ = EmptyView],
              ret    |-> rem.len > 0,
              perror |-> in.r < 0]

\* BufferedLineReader::Refill; in is what the read() call returns (it is
\* only looked at when the reader is not at eof).  ret is the value
\* returned, perror whether perror("Reading input") is called.
Refill(rd, in) ==
    LET rem   == rd.remainder_
        moved == IF rem.len > 0
                   THEN WriteAt(rd.buffer, 0, ViewText(rd.buffer, rem))
                   ELSE rd.buffer
    IN  IF rd.eof_
          THEN [reader |-> [rd EXCEPT !.data_begin_ = 0, !.data_end_ = 0],
                ret    |-> FALSE,
                perror |-> FALSE]
        ELSE IF in.r > 0
          THEN [reader |-> [rd EXCEPT !.buffer = WriteAt(moved, rem.len, in.bytes),
                                      !.data_begin_ = 0,
                                      !.data_end_ = rem.len + in.r,
                                      !.remainder_ = EmptyView],
                ret    |-> TRUE,
                perror |-> FALSE]
        ELSE [reader |-> [rd EXCEPT !.buffer = IF rem.len > 0
                                                 THEN WriteAt(moved, rem.len, <<"\n">>)
                                                 ELSE moved,
                                    !.eof_ = TRUE,
                                    !.data_begin_ = 0,
                                    !.data_end_ = IF rem.len > 0 THEN rem.len + 1 ELSE 0,
                                    !.remainder_ = EmptyView],
              ret    |-> rem.len > 0,
              perror |-> in.r < 0]

\* Mutant of ScanLines: the loop is left after the first line end, whether
\* or not the line had content.
ScanLines_OneLinePerCall(rd, n, result) ==
    LET end_line == FindTerminator(rd.buffer, rd.data_begin_, rd.data_end_)
        m == MakeCommentFreeLine(rd.buffer, rd.data_begin_, end_line,
                                 rd.remove_comments_)
    IN  IF end_line = rd.data_end_
          THEN [reader |-> [rd EXCEPT !.remainder_ =
                                          [pos |-> rd.data_begin_,
                                           len |-> rd.data_end_ - rd.data_begin_],
                                      !.data_begin_ = rd.data_end_],
                result |-> result]
          ELSE [reader |-> [rd EXCEPT !.buffer = m.buffer,
                                      !.data_begin_ = end_line + 1],
                result |-> IF m.line.len > 0 THEN Append(result, m.line)
                                             ELSE result]

\* The scanning loop of ReadNextLines.
RECURSIVE ScanLines(_, _, _)
ScanLines(rd, n, result) ==
    LET end_line == FindTerminator(rd.buffer, rd.data_begin_, rd.data_end_)
    IN  IF end_line = rd.data_end_
          THEN [reader |-> [rd EXCEPT !.remainder_ =
                                          [pos |-> rd.data_begin_,
                                           len |-> rd.data_end_ - rd.data_begin_],
                                      !.data_begin_ = rd.data_end_],
                result |-> result]
          ELSE LET m   == MakeCommentFreeLine(rd.buffer, rd.data_begin_, end_line,
                                              rd.remove_comments_)
                   res == IF m.line.len > 0 THEN Append(result, m.line) ELSE result
                   rd2 == [rd EXCEPT !.buffer = m.buffer,
                                     !.data_begin_ = end_line + 1]
               IN  IF Len(res) >= n
                     THEN [reader |-> rd2, result |-> res]
                     ELSE ScanLines(rd2, n, res)

\* Whether ReadNextLines starts with a Refill, and whether that Refill
\* issues a read() call.
NeedsRefill(rd) == rd.data_begin_ >= rd.data_end_

NeedsRead(rd) == NeedsRefill(rd) /\ ~rd.eof_

\* BufferedLineReader::ReadNextLines(n)
ReadNextLines(rd, n, in) ==
    IF NeedsRefill(rd)
      THEN LET f == Refill(rd, in)
           IN  IF ~f.ret
                 THEN [reader |-> f.reader, result |-> <<>>]
                 ELSE ScanLines(f.reader, n, <<>>)
      ELSE ScanLines(rd, n, <<>>)

\* ------------------------------------------------------------------------
\* Response classification (main.cc)
\* ------------------------------------------------------------------------

\* tolower() on the letters the model uses.
tolower(c) ==
    CASE c = "O" -> "o" [] c = "K" -> "k" [] c = "E" -> "e" [] c = "R" -> "r"
      [] c = "A" -> "a" [] c = "L" -> "l" [] c = "M" -> "m" [] OTHER -> c

\* hasPrefixIgnoreCase(msg, prefix): length test, then strncasecmp.
hasPrefixIgnoreCase(msg, prefix) ==
    /\ Len(msg) >= Len(prefix)
    /\ \A i \in 1..Len(prefix) : tolower(msg[i]) = tolower(prefix[i])

\* The synthetic message "Nothing received from machine: Connection closed".
ConnectionClosedMessage == <<"Connection closed">>

\* Mutant of ClassifyResponse: the is_eof() test is missing.
ClassifyResponse_NoEofCheck(line, eof) ==
    IF hasPrefixIgnoreCase(line, <<"o", "k">>)
      THEN [response |-> "kOk", return_message |-> <<>>]
    ELSE IF \/ hasPrefixIgnoreCase(line, <<"e", "r", "r", "o", "r">>)
            \/ hasPrefixIgnoreCase(line, <<"a", "l", "a", "r", "m">>)
      THEN [response |-> "kError", return_message |-> line]
    ELSE [response |-> "kMessage", return_message |-> line]

\* The part of ReadResponseLine behind the ReadLine() call: line is the
\* text ReadLine() returned, eof is ResponseLines().is_eof().
ClassifyResponse(line, eof) ==
    IF eof
      THEN [response |-> "kError", return_message |-> ConnectionClosedMessage]
    ELSE IF hasPrefixIgnoreCase(line, <<"o", "k">>)
      THEN [response |-> "kOk", return_message |-> <<>>]
    ELSE IF \/ hasPrefixIgnoreCase(line, <<"e", "r", "r", "o", "r">>)
            \/ hasPrefixIgnoreCase(line, <<"a", "l", "a", "r", "m">>)
      THEN [response |-> "kError", return_message |-> line]
    ELSE [response |-> "kMessage", return_message |-> line]

\* ------------------------------------------------------------------------
\* The environment: the gcode file and the machine
\* ------------------------------------------------------------------------

\* The gcode inputs explored: blocks with comments, blank lines, CRLF line
\* ends and an unterminated last line; every line is shorter than the buffer.
GcodeFiles ==
    { <<"a", "\n", "b", "\n", ";", "x", "\n", "\n", "c", "\n">>,
      <<"a", "\r", "\n", "b">>,
      <<" ", "a", " ", ";", "c", "\n", "b", "\n">>,
      <<>> }

\* What one read() on the machine's descriptor may deliver.
ResponseChunks ==
    { <<"o", "k", "\n">>,
      <<"o", "k", "\n", "o", "k", "\n">>,
      <<"O", "K", "\r", "\n">>,
      <<"o", "k">>,
      <<"o">>,
      <<"k", "\n">>,
      <<"e", "r", "r", "o", "r", ":", "1", "\n">>,
      <<"A", "l", "a", "r", "m", "\n">>,
      <<"T", ":", "1", "\n">>,
      <<" ", "\r", "\n">> }

HasTerminator(bytes) == \E i \in 1..Len(bytes) : bytes[i] \in {"\n", "\r"}

\* The connection strings explored (main.cc: "/dev/null" means dry run).
ConnectStrings == {"/dev/null", "/dev/ttyACM0,b115200"}

\* What a read() of the gcode input may return: at the end of the file 0;
\* before that an error, or as many bytes as the count allows (a regular
\* file), or a short read (a pipe or a terminal), of which the shortest, one
\* byte, is explored.
GcodeReads(rd, remaining) ==
    IF remaining = <<>>
      THEN {ReadEof}
      ELSE {ReadErr} \cup
           {ReadData(SubSeq(remaining, 1, k)) :
                k \in {1, Min({ReadCount(rd), Len(remaining)})}}

\* What a read() of the machine's descriptor may return: end-of-stream
\* (connection closed), an error, or a chunk of response bytes.  The device
\* never sends an unterminated line that fills the whole buffer.
MachineReads(rd) ==
    {ReadEof, ReadErr} \cup
    {ReadData(c) : c \in {d \in ResponseChunks :
                            /\ Len(d) <= ReadCount(rd)
                            /\ \/ HasTerminator(d)
                               \/ rd.remainder_.len + Len(d) < rd.buffer_size_}}

\* ------------------------------------------------------------------------
\* main(): state
\* ------------------------------------------------------------------------

VARIABLES
    pc,                   \* position in main()
    is_dry_run,           \* -n, or connection string /dev/null
    use_ok_flow_control,  \* cleared by -F, and in a dry run
    block_buffer_count,   \* -b
    interactive,          \* isatty(STDIN_FILENO)
    gcode_file,           \* the bytes of the gcode input, as opened
    descriptor,           \* OpenMachineConnection: its argument
    fds,                  \* OpenMachineConnection: descriptors it holds open
    conn_fd,              \* OpenMachineConnection: the value returned
    calls,                \* history: what it called, with what, and how it went
    timeout_ms,           \* DiscardPendingInput: its argument
    tv,                   \* AwaitReadReady: time left of the select() timeout
    total_bytes,          \* DiscardPendingInput: total_bytes
    pending,              \* bytes readable on the descriptor now
    wire,                 \* bytes on their way: the time until each arrives
    hangup,               \* the other end has closed the connection
    quiet,                \* history: time since a byte last became readable
    fd_stream,            \* WaitForOkAck: bytes its descriptor has yet to deliver
    buffer,               \* WaitForOkAck: buffer, as ReadLine has filled it
    ch,                   \* ReadLine: c
    bytes_read,           \* ReadLine: bytes_read
    print_errors,         \* WaitForOkAck: its argument
    ok_ack,               \* WaitForOkAck: the value returned
    at_eof,               \* history: a read() has returned 0
    machine_open,         \* machine != nullptr
    gcode_reader,         \* BufferedLineReader over the gcode input
    input,                \* bytes of the gcode input not yet read
    response_reader,      \* machine->ResponseLines()
    response_reads,       \* read() calls the machine's descriptor answered
    received,             \* history: the bytes those read() calls delivered
    lines,                \* the group ReadNextLines returned (string_views)
    request,              \* position of the for loop in lines (0: before it)
    line_no,              \* line_no
    response,             \* the last AckResponse ReadResponseLine returned
    return_message,       \* its *return_message
    ack_msg,              \* the line ReadLine() returned to it
    exit_status,          \* -1 while running
    produced,             \* history: texts of the blocks the reader produced
    written,              \* history: blocks written to the transport
    answered,             \* history: terminal responses, per block
    continued,            \* history: blocks the operator pressed ENTER for
    discards,             \* history: DiscardPendingInput passes done
    events                \* history: what made the process end

vars == <<pc, is_dry_run, use_ok_flow_control, block_buffer_count, interactive,
          gcode_file, descriptor, fds, conn_fd, calls, timeout_ms, tv,
          total_bytes, pending, wire, hangup, quiet, fd_stream, buffer, ch,
          bytes_read, print_errors, ok_ack, at_eof, machine_open, gcode_reader, input, response_reader,
          response_reads, received, lines, request, line_no, response, return_message, ack_msg,
          exit_status, produced, written, answered, continued, discards, events>>

\* Groups of variables, for UNCHANGED.
opening == <<descriptor, fds, conn_fd, calls>>

draining == <<timeout_ms, tv, total_bytes, pending, wire, hangup, quiet>>

waiting == <<fd_stream, buffer, ch, bytes_read, print_errors, ok_ack, at_eof>>

config == <<is_dry_run, block_buffer_count, interactive, gcode_file, opening,
            draining, waiting>>

source == <<gcode_reader, input, produced>>

device == <<response_reader, response_reads, received>>

reply == <<response, return_message, ack_msg>>

ending == <<exit_status, events>>

\* OpenMachineConnection is not running.
NotOpening ==
    /\ descriptor = <<>>
    /\ fds = {}
    /\ conn_fd = -1
    /\ calls = <<>>

\* DiscardPendingInput is not running.
NotDraining ==
    /\ timeout_ms = 0
    /\ tv = 0
    /\ total_bytes = 0
    /\ pending = 0
    /\ wire = <<>>
    /\ hangup = FALSE
    /\ quiet = 0

\* The byte '\0'.
NUL == ""

\* WaitForOkAck is not running.
NotWaiting ==
    /\ fd_stream = <<>>
    /\ buffer = <<>>
    /\ ch = NUL
    /\ bytes_read = 0
    /\ print_errors = FALSE
    /\ ok_ack = FALSE
    /\ at_eof = FALSE

\* The state main() is in when it is about to open the machine connection:
\* options parsed, input opened.
Init ==
    /\ pc = "open"
    /\ NotOpening
    /\ NotDraining
    /\ NotWaiting
    /\ \E option_n \in BOOLEAN, connect_str \in ConnectStrings :
           is_dry_run = (option_n \/ connect_str = "/dev/null")
    /\ use_ok_flow_control \in BOOLEAN
    /\ block_buffer_count \in 1..MaxBlockBufferCount
    /\ interactive \in BOOLEAN
    /\ machine_open = FALSE
    /\ gcode_reader = NewReader(GcodeBufferSize, TRUE)
    /\ gcode_file \in GcodeFiles
    /\ input = gcode_file
    /\ response_reader = NewReader(ResponseBufferSize, FALSE)
    /\ response_reads = 0
    /\ received = <<>>
    /\ lines = <<>>
    /\ request = 0
    /\ line_no = 0
    /\ response = "none"
    /\ return_message = <<>>
    /\ ack_msg = <<>>
    /\ exit_status = -1
    /\ produced = <<>>
    /\ written = <<>>
    /\ answered = <<>>
    /\ continued = {}
    /\ discards = 0
    /\ events = "running"

\* ------------------------------------------------------------------------
\* main(): steps
\* ------------------------------------------------------------------------

\* The process ends with the given status.
Exit(status, why) ==
    /\ pc' = "exit"
    /\ exit_status' = status
    /\ events' = why

\* Mutant of FlowControlInRun: a dry run keeps the flow control option.
FlowControlInRun_KeepsOption(flow, dry) == flow

\* use_ok_flow_control &= !is_dry_run ("In a dry-run, we also will not read
\* anything").
FlowControlInRun(flow, dry) == flow /\ ~dry

\* machine.reset(MachineConnection::Open(connect_str)), skipped in a dry run;
\* then use_ok_flow_control &= !is_dry_run.
OpenConnection ==
    /\ pc = "open"
    /\ use_ok_flow_control' = FlowControlInRun(use_ok_flow_control, is_dry_run)
    /\ \/ /\ is_dry_run
          /\ pc' = "discard_start"
          /\ UNCHANGED <<machine_open, ending>>
       \/ /\ ~is_dry_run
          /\ machine_open' = TRUE
          /\ pc' = "discard_start"
          /\ UNCHANGED ending
       \/ /\ ~is_dry_run
          /\ Exit(1, "open_failed")
          /\ UNCHANGED machine_open
    /\ UNCHANGED <<config, source, device, lines, request, line_no, reply,
                   written, answered, continued, discards>>

\* Mutant of DiscardInitial: sending starts without the startup discard pass.
DiscardInitial_Skipped ==
    /\ pc = "discard_start"
    /\ pc' = "loop"
    /\ UNCHANGED <<config, use_ok_flow_control, machine_open, source, device,
                   lines, request, line_no, reply, ending, written, answered,
                   continued, discards>>

\* if (machine) machine->DiscardPendingInput(initial_squash_chatter_ms, ...)
DiscardInitial ==
    /\ pc = "discard_start"
    /\ discards' = IF machine_open THEN discards + 1 ELSE discards
    /\ pc' = "loop"
    /\ UNCHANGED <<config, use_ok_flow_control, machine_open, source, device,
                   lines, request, line_no, reply, ending, written, answered,
                   continued>>

\* Mutant of GroupSize: one block more than -b allows.
GroupSize_OffByOne(b) == b + 1

\* The number of blocks main() asks the reader for.
GroupSize(b) == b

\* while (!gcode_reader.is_eof()) { lines = ReadNextLines(block_buffer_count)
ReadGroup ==
    /\ pc = "loop"
    /\ ~is_eof(gcode_reader)
    /\ \E in \in GcodeReads(gcode_reader, input) :
          LET did_read == NeedsRead(gcode_reader)
              got == ReadNextLines(gcode_reader, GroupSize(block_buffer_count), in)
          IN  /\ gcode_reader' = got.reader
              /\ lines' = got.result
              /\ produced' = produced \o
                     [i \in 1..Len(got.result) |->
                          ViewText(got.reader.buffer, got.result[i])]
              /\ input' = IF did_read /\ in.r > 0
                            THEN SubSeq(input, in.r + 1, Len(input))
                            ELSE input
    /\ request' = 0
    /\ pc' = "write"
    /\ UNCHANGED <<config, use_ok_flow_control, machine_open, device, line_no,
                   reply, ending, written, answered, continued, discards>>

\* The loop ends when the reader is at eof.
LoopDone ==
    /\ pc = "loop"
    /\ is_eof(gcode_reader)
    /\ pc' = "discard_end"
    /\ UNCHANGED <<config, use_ok_flow_control, machine_open, source, device,
                   lines, request, line_no, reply, ending, written, answered,
                   continued, discards>>

\* The blocks one WriteBlocks call puts on the wire: all of the group, each
\* with its number in the order the reader produced the blocks.
BlocksOnWire(group, buf, before) ==
    [i \in 1..Len(group) |-> [no |-> before + i, text |-> ViewText(buf, group[i])]]

\* if (!is_dry_run && !machine->WriteBlocks(scratch_buffer, lines)) return 1;
WriteGroup ==
    /\ pc = "write"
    /\ \/ /\ is_dry_run
          /\ pc' = "next_request"
          /\ UNCHANGED <<written, ending>>
       \/ /\ ~is_dry_run
          /\ written' = written \o BlocksOnWire(lines, gcode_reader.buffer,
                                                Len(produced) - Len(lines))
          /\ pc' = "next_request"
          /\ UNCHANGED ending
       \/ /\ ~is_dry_run
          /\ Exit(1, "write_failed")
          /\ UNCHANGED written
    /\ UNCHANGED <<config, use_ok_flow_control, machine_open, source, device,
                   lines, request, line_no, reply, answered, continued, discards>>

\* for (const auto request : lines) { line_no++; ...
NextRequest ==
    /\ pc = "next_request"
    /\ IF request < Len(lines)
         THEN /\ request' = request + 1
              /\ line_no' = line_no + 1
              /\ pc' = "await"
         ELSE /\ pc' = "loop"
              /\ UNCHANGED <<request, line_no>>
    /\ UNCHANGED <<config, use_ok_flow_control, machine_open, source, device,
                   lines, reply, ending, written, answered, continued, discards>>

\* A terminal response ends the wait for a block.
IsTerminal(resp) == resp \in {"kOk", "kError"}

\* ReadResponseLine has returned cls for the current block, from line msg.
Respond(cls, msg) ==
    /\ response' = cls.response
    /\ return_message' = cls.return_message
    /\ ack_msg' = msg
    /\ answered' = IF IsTerminal(cls.response)
                     THEN Append(answered, [no |-> line_no, response |-> cls.response])
                     ELSE answered
    /\ pc' = "classified"

\* Mutant of AwaitsResponse: a response is read in every run.
AwaitsResponse_Always(flow) == TRUE

\* if (!use_flow_control) return AckResponse::kOk; otherwise a response
\* line is read.
AwaitsResponse(flow) == flow

\* response = ReadResponseLine(use_ok_flow_control, machine.get(), &print_msg):
\* without flow control kOk at once; otherwise ReadLine() on the response
\* reader, one pass of its while loop per step, then the classification.
ReadResponseLine ==
    /\ pc = "await"
    /\ \/ /\ ~AwaitsResponse(use_ok_flow_control)
          /\ Respond([response |-> "kOk", return_message |-> <<>>], <<>>)
          /\ UNCHANGED device
       \/ /\ AwaitsResponse(use_ok_flow_control)
          /\ is_eof(response_reader)
          /\ Respond(ClassifyResponse(<<>>, TRUE), <<>>)
          /\ UNCHANGED device
       \/ /\ AwaitsResponse(use_ok_flow_control)
          /\ ~is_eof(response_reader)
          /\ NeedsRead(response_reader) => response_reads < MaxResponseReads
          /\ \E in \in MachineReads(response_reader) :
                LET got == ReadNextLines(response_reader, 1, in)
                    msg == IF got.result = <<>> THEN <<>>
                           ELSE ViewText(got.reader.buffer, got.result[1])
                IN  /\ response_reader' = got.reader
                    /\ response_reads' = IF NeedsRead(response_reader)
                                           THEN response_reads + 1
                                           ELSE response_reads
                    /\ received' = IF NeedsRead(response_reader)
                                     THEN received \o in.bytes
                                     ELSE received
                    /\ IF got.result = <<>> /\ ~is_eof(got.reader)
                         THEN UNCHANGED <<reply, answered, pc>>
                         ELSE Respond(ClassifyResponse(msg, is_eof(got.reader)), msg)
    /\ UNCHANGED <<config, use_ok_flow_control, machine_open, source, lines,
                   request, line_no, ending, written, continued, discards>>

\* Mutant of handle_error_or_exit: the error is passed over in silence.
handle_error_or_exit_Ignore(isatty) == "next_request"

\* Mutant of handle_error_or_exit: the operator is asked in every session.
handle_error_or_exit_AlwaysAsk(isatty) == "getchar"

\* handle_error_or_exit(): where main() is after an Error response.
handle_error_or_exit(isatty) == IF isatty THEN "getchar" ELSE "exit"

\* Mutant of MoreToCome: a Message ends the wait like a terminal response.
MoreToCome_Never(resp) == FALSE

\* } while (response == AckResponse::kMessage);
MoreToCome(resp) == resp = "kMessage"

\* Mutant of LoopEnd: the do-while loop never repeats.
LoopEnd_Once(resp) == "next_request"

\* Where the do-while loop goes at its end.
LoopEnd(resp) == IF MoreToCome(resp) THEN "await" ELSE "next_request"

\* The rest of the do-while body after ReadResponseLine returned.
HandleResponse ==
    /\ pc = "classified"
    /\ IF response = "kError"
         THEN IF handle_error_or_exit(interactive) = "exit"
                THEN Exit(1, "error_response")
                ELSE /\ pc' = handle_error_or_exit(interactive)
                     /\ UNCHANGED ending
         ELSE /\ pc' = LoopEnd(response)
              /\ UNCHANGED ending
    /\ UNCHANGED <<config, use_ok_flow_control, machine_open, source, device,
                   lines, request, line_no, reply, written, answered, continued,
                   discards>>

\* Mutant of AfterGetchar: the group of the failed block is sent again.
AfterGetchar_Retry(resp) == "write"

\* Where main() goes on when getchar() has returned.
AfterGetchar(resp) == LoopEnd(resp)

\* getchar() returns: the operator pressed ENTER.
OperatorContinue ==
    /\ pc = "getchar"
    /\ pc' = AfterGetchar(response)
    /\ continued' = continued \cup {line_no}
    /\ UNCHANGED <<config, use_ok_flow_control, machine_open, source, device,
                   lines, request, line_no, reply, ending, written, answered,
                   discards>>

\* CTRL-C while getchar() waits: the process is killed by SIGINT.
OperatorAbort ==
    /\ pc = "getchar"
    /\ Exit(130, "sigint")
    /\ UNCHANGED <<config, use_ok_flow_control, machine_open, source, device,
                   lines, request, line_no, reply, written, answered, continued,
                   discards>>

\* if (!is_dry_run) machine->DiscardPendingInput(...); close(input_fd);
\* and main() returns 0.
DiscardFinal ==
    /\ pc = "discard_end"
    /\ discards' = IF ~is_dry_run THEN discards + 1 ELSE discards
    /\ Exit(0, "finished")
    /\ UNCHANGED <<config, use_ok_flow_control, machine_open, source, device,
                   lines, request, line_no, reply, written, answered, continued>>

Next ==
    \/ OpenConnection
    \/ DiscardInitial
    \/ ReadGroup
    \/ LoopDone
    \/ WriteGroup
    \/ NextRequest
    \/ ReadResponseLine
    \/ HandleResponse
    \/ OperatorContinue
    \/ OperatorAbort
    \/ DiscardFinal

Spec == Init /\ [][Next]_vars

\* ------------------------------------------------------------------------
\* Properties of the send/acknowledge loop
\* ------------------------------------------------------------------------

\* The block main() is waiting on has no terminal response yet.
Waiting == pc = "await" \/ (pc = "classified" /\ ~IsTerminal(response))

\* C1: blocks are written to the transport in the order the line reader
\* produced them, terminal responses (Ok or Error) are taken block by block
\* in that same order, and the wait for a block starts only when every
\* earlier block has its terminal response.
C1_SentAndAnsweredInOrder ==
    /\ Len(written) <= Len(produced)
    /\ \A i \in 1..Len(written) :
          written[i].no = i /\ written[i].text = produced[i]
    /\ \A i \in 1..Len(answered) :
          answered[i].no = i /\ IsTerminal(answered[i].response)
    /\ Len(answered) = IF Waiting THEN line_no - 1 ELSE line_no
    /\ ~is_dry_run => line_no <= Len(written)

\* C1 witness: two groups went out and a later block is being waited on
\* after an Error and an Ok.
C1_Witness ==
    /\ Len(written) >= 3
    /\ Len(answered) = 2
    /\ answered[1].response = "kError"
    /\ answered[2].response = "kOk"
    /\ pc = "await"

\* C2: with flow control on a group has at most block_buffer_count blocks,
\* all of it is written by one WriteBlocks call before a response of the
\* group is read, the next group is written only when every block written
\* so far has its terminal response, and so at most block_buffer_count
\* blocks are written but not yet answered.
C2_GroupPacing ==
    (use_ok_flow_control /\ ~is_dry_run) =>
        /\ Len(lines) <= block_buffer_count
        /\ Len(written) - Len(answered) <= block_buffer_count
        /\ pc \in {"next_request", "await", "classified", "getchar"}
              => Len(written) = Len(produced)
        /\ pc = "write" => Len(answered) = Len(written)

\* C2 witness: a full group of two blocks is on the wire, none answered yet.
C2_Witness ==
    /\ use_ok_flow_control
    /\ block_buffer_count = 2
    /\ pc = "await"
    /\ Len(written) - Len(answered) = 2

\* The default settings the README speaks of, in a real run.
DefaultSettings ==
    block_buffer_count = 1 /\ use_ok_flow_control /\ ~is_dry_run

\* C3 (as claimed): with the default settings block i+1 is written only if
\* block i was acknowledged with 'ok'.
C3_NextOnlyAfterOk ==
    DefaultSettings =>
        \A i \in 2..Len(written) :
            Len(answered) >= i - 1 /\ answered[i - 1].response = "kOk"

\* C3 (amended): with the default settings block i+1 is written only if
\* block i was acknowledged with 'ok', or block i ended with an Error in an
\* interactive session and the operator pressed ENTER to continue.
C3_NextAfterOkOrContinue ==
    DefaultSettings =>
        \A i \in 2..Len(written) :
            /\ Len(answered) >= i - 1
            /\ \/ answered[i - 1].response = "kOk"
               \/ /\ answered[i - 1].response = "kError"
                  /\ interactive
                  /\ (i - 1) \in continued

\* C3 witness: block 2 is on the wire although block 1 ended with an Error
\* the operator continued past.
C3_Witness ==
    /\ DefaultSettings
    /\ Len(written) = 2
    /\ answered[1].response = "kError"
    /\ continued = {1}

\* A line begins with word, letter case ignored.
BeginsWith(line, word) == hasPrefixIgnoreCase(line, word)

\* C4 (as claimed): every non-empty line ReadLine() hands to ReadResponseLine
\* is classified by its prefix alone: Ok iff it begins with "ok", otherwise
\* Error iff it begins with "error" or "alarm", otherwise Message.
C4_ClassifiedByPrefix ==
    (pc = "classified" /\ use_ok_flow_control /\ ack_msg # <<>>) =>
        LET ok  == BeginsWith(ack_msg, <<"o", "k">>)
            err == \/ BeginsWith(ack_msg, <<"e", "r", "r", "o", "r">>)
                   \/ BeginsWith(ack_msg, <<"a", "l", "a", "r", "m">>)
        IN  /\ response = "kOk" <=> ok
            /\ response = "kError" <=> (~ok /\ err)
            /\ response = "kMessage" <=> (~ok /\ ~err)

\* A line with something other than whitespace in it.
NonBlank(line) == \E i \in 1..Len(line) : ~isspace(line[i])

\* The wait for the current block is untouched by a step.
SameWait ==
    /\ line_no' = line_no
    /\ request' = request
    /\ written' = written
    /\ answered' = answered

\* C5: a Message never ends the wait: the step that reads it and the step
\* that handles it leave the block waited on, the blocks written and the
\* sent counter as they are, and main() reads the next line for the same
\* block; the wait moves on to another block only when the current one has
\* its terminal response; and a line counted as a Message is never blank.
C5_MessageKeepsWaiting ==
    [][ /\ (pc = "await" /\ pc' = "classified" /\ response' = "kMessage")
              => (SameWait /\ NonBlank(ack_msg'))
        /\ (pc = "await" /\ pc' = "await") => SameWait
        /\ (pc = "classified" /\ response = "kMessage")
              => (pc' = "await" /\ SameWait)
        /\ (line_no' # line_no) => Len(answered) = line_no
      ]_vars

\* C5 witness: after a Message line and a consumed whitespace-only line the
\* first block is still being waited on.
C5_Witness ==
    /\ pc = "await"
    /\ line_no = 1
    /\ response = "kMessage"
    /\ answered = <<>>
    /\ response_reader.buffer[1] = " "
    /\ NeedsRefill(response_reader)

\* C6: when the response reader is at end-of-stream the block waited on is
\* answered kError with the 'connection closed' message, in one step that
\* needs no further byte from the device, and the next step is the
\* operator-decision step (getchar in an interactive session, exit(1)
\* otherwise).
C6_ClosedConnectionIsError ==
    /\ [](( pc = "classified" /\ use_ok_flow_control /\ is_eof(response_reader))
             => ( /\ response = "kError"
                  /\ return_message = ConnectionClosedMessage
                  /\ answered[Len(answered)] = [no |-> line_no, response |-> "kError"] ))
    /\ [](( pc = "await" /\ use_ok_flow_control /\ is_eof(response_reader))
             => ENABLED ReadResponseLine)
    /\ [][ (pc = "await" /\ is_eof(response_reader'))
              => (pc' = "classified" /\ response' = "kError") ]_vars
    /\ [][ (pc = "classified" /\ response = "kError")
              => \/ interactive /\ pc' = "getchar"
                 \/ ~interactive /\ pc' = "exit" /\ exit_status' = 1 ]_vars

\* C6 witness: the stream ended with nothing received for the block.
C6_Witness ==
    /\ pc = "classified"
    /\ is_eof(response_reader)
    /\ ack_msg = <<>>
    /\ return_message = ConnectionClosedMessage
    /\ line_no = 2

\* The last terminal response taken so far is an Error.
LastAnswerIsError ==
    Len(answered) > 0 /\ answered[Len(answered)].response = "kError"

\* C7 (as claimed): in a non-interactive session the process that ends on
\* the Error response to block k has written exactly k blocks.
C7_ExactlyKWritten ==
    (events = "error_response" /\ ~interactive) => Len(written) = line_no

\* C7 (amended): in a non-interactive session, once the terminal response to
\* block k is Error the only step left is the exit with status 1: no further
\* response is read, no further block is read or written.  Written by then
\* is the whole group of block k: at least k and at most
\* k + block_buffer_count - 1 blocks, exactly k when block_buffer_count = 1.
C7_ErrorEndsUnattendedRun ==
    /\ []( (~interactive /\ LastAnswerIsError) =>
             /\ pc \in {"classified", "exit"}
             /\ pc = "exit" => (exit_status = 1 /\ events = "error_response")
             /\ line_no = Len(answered)
             /\ Len(written) = Len(produced)
             /\ line_no <= Len(written)
             /\ Len(written) <= line_no + block_buffer_count - 1
             /\ block_buffer_count = 1 => Len(written) = line_no )
    /\ [][ (~interactive /\ LastAnswerIsError) =>
             /\ pc' = "exit"
             /\ UNCHANGED <<written, answered, source, device, line_no>> ]_vars

\* C7 witness: the unattended run ended on the Error for block 1 with the
\* two blocks of its group written.
C7_Witness ==
    /\ events = "error_response"
    /\ exit_status = 1
    /\ ~interactive
    /\ line_no = 1
    /\ Len(written) = 2

\* No block number occurs twice in the write log.
WrittenOnce ==
    \A i, j \in 1..Len(written) : written[i].no = written[j].no => i = j

\* C8: in an interactive session an Error response takes main() to getchar,
\* where it stays until the operator acts; ENTER takes it to the next block
\* (the for loop goes on, nothing is written for the failed block), CTRL-C
\* ends the process; and no block is ever written twice.
C8_OperatorDecides ==
    /\ [](WrittenOnce)
    /\ [](pc = "getchar" => (interactive /\ response = "kError"))
    /\ [][ (pc = "classified" /\ response = "kError" /\ interactive)
              => (pc' = "getchar" /\ SameWait) ]_vars
    /\ [][ pc = "getchar"
              => \/ /\ pc' = "next_request"
                    /\ continued' = continued \cup {line_no}
                    /\ SameWait
                 \/ pc' = "exit" /\ exit_status' # 0 ]_vars
    /\ [][ (pc = "next_request" /\ pc' = "await")
              => (request' = request + 1 /\ line_no' = line_no + 1
                  /\ written' = written) ]_vars

\* C8 witness: the operator continued past the Error for block 1, and the
\* Error for block 2 now waits for the operator too; two blocks written.
C8_Witness ==
    /\ interactive
    /\ pc = "getchar"
    /\ line_no = 2
    /\ 1 \in continued
    /\ Len(written) = 2

\* The exits main() takes on a failure before or while sending.
FailedToOpen == pc = "exit" /\ ~is_dry_run /\ ~machine_open

WriteFailed == pc = "exit" /\ events = "write_failed"

\* The response reader hit end-of-stream or a read error during the run.
ConnectionLost == is_eof(response_reader)

\* Some block ended with an Error response.
SomeError == \E i \in 1..Len(answered) : answered[i].response = "kError"

\* The run went through every block the reader produced, all answered Ok.
FullySuccessful ==
    /\ events = "finished"
    /\ Len(answered) = Len(produced)
    /\ ~SomeError

ReadsOrWritesBlocks ==
    written' # written \/ produced' # produced \/ input' # input

NoResponseRead ==
    /\ response_reads = 0
    /\ received = <<>>
    /\ response_reader = NewReader(ResponseBufferSize, FALSE)

\* Every block waited for so far was taken as Ok.
EveryBlockOk == \A i \in 1..Len(answered) : answered[i].response = "kOk"

\* C11: in a dry run (-n, or connection string /dev/null) no transport is
\* opened, nothing is written to one and nothing is read from one (no
\* discard pass, no response read), every block is taken as Ok, and the run
\* ends with status 0 and a sent-count (line_no) equal to the number of
\* blocks the line reader produced.
C11_DryRunTouchesNoTransport ==
    is_dry_run =>
        /\ ~machine_open
        /\ written = <<>>
        /\ discards = 0
        /\ NoResponseRead
        /\ EveryBlockOk
        /\ pc # "getchar"
        /\ pc = "exit" => /\ events = "finished"
                          /\ exit_status = 0
                          /\ line_no = Len(produced)
                          /\ Len(answered) = Len(produced)

\* C11 witness: a dry run that was started with flow control on has ended
\* after three blocks.
C11_Witness ==
    /\ is_dry_run
    /\ pc = "exit"
    /\ line_no = 3
    /\ Len(answered) = 3

\* C12: with flow control off (-F) the engine never reads a response line:
\* every block is taken as Ok without a read, no Error ever stops or holds
\* the run, and each group is written as soon as the group before it was
\* written, whatever the device sends.
C12_NoFlowControlNeverReads ==
    (pc # "open" /\ ~use_ok_flow_control) =>
        /\ NoResponseRead
        /\ EveryBlockOk
        /\ pc # "getchar"
        /\ events \notin {"error_response", "sigint"}
        /\ pc = "classified" => response = "kOk"

\* C12 witness: a real run without flow control has written a group of two
\* blocks and a group of one and taken each block as Ok.
C12_Witness ==
    /\ ~is_dry_run
    /\ ~use_ok_flow_control
    /\ block_buffer_count = 2
    /\ Len(written) = 3
    /\ Len(answered) = 3

\* main() is between the startup discard pass and the final one.
Sending == pc \in {"loop", "write", "next_request", "await", "classified", "getchar"}

\* C13: in a real run the startup discard pass is over before the first
\* block is written, no discard pass runs while blocks are read, written or
\* waited for, and the final discard pass runs only when every block written
\* has its terminal response.
C13_PhasesInOrder ==
    (~is_dry_run /\ machine_open) =>
        /\ discards \in 0..2
        /\ discards = 0 => (pc = "discard_start" /\ written = <<>> /\ NoResponseRead)
        /\ Sending => discards = 1
        /\ pc = "discard_end" => (discards = 1 /\ Len(answered) = Len(written)
                                               /\ Len(written) = Len(produced))
        /\ discards = 2 => /\ pc = "exit"
                           /\ events = "finished"
                           /\ Len(answered) = Len(written)
                           /\ Len(written) = Len(produced)

\* C13 witness: both discard passes are done and three blocks were written
\* and answered in between.
C13_Witness ==
    /\ ~is_dry_run
    /\ discards = 2
    /\ Len(written) = 3
    /\ Len(answered) = 3

\* ------------------------------------------------------------------------
\* What the line reader is documented to deliver
\* ------------------------------------------------------------------------

\* The lines of a byte stream: the pieces between line terminators ('\n' or
\* '\r'), the unterminated rest included.
RECURSIVE SplitLines(_)
SplitLines(bytes) ==
    IF bytes = <<>>
      THEN <<>>
      ELSE LET ends == {i \in 1..Len(bytes) : bytes[i] \in {"\n", "\r"}}
               stop == IF ends = {} THEN Len(bytes) + 1 ELSE Min(ends)
           IN  <<SubSeq(bytes, 1, stop - 1)>>
                   \o SplitLines(SubSeq(bytes, stop + 1, Len(bytes)))

\* A line without its ';' comment (if comments are removed) and without
\* leading and trailing whitespace.
CleanLine(line, remove_comments) ==
    LET comments == {i \in 1..Len(line) : line[i] = ";"}
        code  == IF remove_comments /\ comments # {}
                   THEN SubSeq(line, 1, Min(comments) - 1) ELSE line
        solid == {i \in 1..Len(code) : ~isspace(code[i])}
    IN  IF solid = {} THEN <<>> ELSE SubSeq(code, Min(solid), Max(solid))

\* The blocks of a byte stream as the class comment describes them: every
\* line cleaned, empty lines removed, each block closed by exactly one '\n'.
CleanLines(bytes, remove_comments) ==
    LET raw     == SplitLines(bytes)
        cleaned == [i \in 1..Len(raw) |-> CleanLine(raw[i], remove_comments)]
        kept    == SelectSeq(cleaned, LAMBDA l : l # <<>>)
    IN  [i \in 1..Len(kept) |-> Append(kept[i], "\n")]

\* ------------------------------------------------------------------------
\* A device that answers ok
\* ------------------------------------------------------------------------

\* The bytes are a run of complete "ok" lines, possibly followed by the
\* beginning of another one.
RECURSIVE OkStream(_)
OkStream(bytes) ==
    \/ bytes \in {<<>>, <<"o">>, <<"o", "k">>, <<"O">>, <<"O", "K">>,
                  <<"O", "K", "\r">>}
    \/ /\ Len(bytes) >= 3
       /\ SubSeq(bytes, 1, 3) = <<"o", "k", "\n">>
       /\ OkStream(SubSeq(bytes, 4, Len(bytes)))
    \/ /\ Len(bytes) >= 4
       /\ SubSeq(bytes, 1, 4) = <<"O", "K", "\r", "\n">>
       /\ OkStream(SubSeq(bytes, 5, Len(bytes)))

\* The connection is open, has not been closed or failed, and all the
\* device has sent so far are "ok" lines.
DeviceRepliesOk ==
    /\ machine_open
    /\ ~is_eof(response_reader)
    /\ OkStream(received)

\* The run is over, every write succeeded and the gcode input was read to
\* its end without a read error.
RanThrough == pc = "exit" /\ events # "write_failed" /\ input = <<>>

ReaderInputs ==
    { <<"a", "b", "\r", "\n", "c", "\n">>,
      <<"a", "b", "\n", "c", "\n">>,
      <<"a", "b", "\r", "c", "\n">>,
      <<" ", "a", ";", "\n", "\n", ";", "x", "\n", "b">>,
      <<"a", "b", "c", "\n", "d">>,
      <<"a", "b">>,
      <<" ", "\n", ";">>,
      <<>> }

\* What read(fd_, data_end_, count) returns on a stream without read errors:
\* 0 at the end of the stream and for a count of 0, otherwise any number of
\* bytes from 1 up to the count.
StreamReads(rd, remaining) ==
    IF remaining = <<>> \/ ReadCount(rd) = 0
      THEN {ReadEof}
      ELSE {ReadData(SubSeq(remaining, 1, k)) :
                k \in 1..Min({ReadCount(rd), Len(remaining)})}

\* The next Refill stores its closing '\n' behind the end of the buffer: the
\* remainder fills the whole buffer, so read() is called with a count of 0,
\* returns 0, and "*data_end_++ = '\n'" writes to buffer_[buffer_size_].
StoresBehindBuffer(rd) ==
    NeedsRead(rd) /\ rd.remainder_.len = rd.buffer_size_

\* The state before the first call: a fresh reader over one of the streams
\* and the n the caller passes to ReadNextLines (in block_buffer_count); the
\* engine around it stands still.
ReaderInit ==
    /\ pc = "reader"
    /\ NotOpening
    /\ NotDraining
    /\ NotWaiting
    /\ is_dry_run = TRUE
    /\ use_ok_flow_control = FALSE
    /\ block_buffer_count \in 0..MaxBatch
    /\ interactive = FALSE
    /\ machine_open = FALSE
    /\ \E buffer_size \in 1..MaxReaderBufferSize, remove_comments \in BOOLEAN :
           gcode_reader = NewReader(buffer_size, remove_comments)
    /\ gcode_file \in ReaderInputs
    /\ input = gcode_file
    /\ response_reader = NewReader(ResponseBufferSize, FALSE)
    /\ response_reads = 0
    /\ received = <<>>
    /\ lines = <<>>
    /\ request = 0
    /\ line_no = 0
    /\ response = "none"
    /\ return_message = <<>>
    /\ ack_msg = <<>>
    /\ exit_status = -1
    /\ produced = <<>>
    /\ written = <<>>
    /\ answered = <<>>
    /\ continued = {}
    /\ discards = 0
    /\ events = "running"

\* What the reader's caller does not touch.
around == <<config, use_ok_flow_control, machine_open, device, request, line_no, reply, ending, written,
            answered, continued, discards>>

\* One ReadNextLines(n) call on the reader, read() returning in.
Fetch(n, in) ==
    LET did_read == NeedsRead(gcode_reader)
        got == ReadNextLines(gcode_reader, n, in)
    IN  /\ gcode_reader' = got.reader
        /\ lines' = got.result
        /\ produced' = produced \o
               [i \in 1..Len(got.result) |->
                    ViewText(got.reader.buffer, got.result[i])]
        /\ input' = IF did_read /\ in.r > 0
                      THEN SubSeq(input, in.r + 1, Len(input))
                      ELSE input

\* The caller is between two calls: "reader" at the start and when
\* ReadNextLines has returned, "line" when ReadLine has returned.
BetweenCalls == pc \in {"reader", "line"}

\* The caller calls ReadNextLines(block_buffer_count).  When the call stores
\* behind the buffer, this is the outcome in which the store lands in memory
\* nothing else uses and is read back.
CallReadNextLines ==
    /\ BetweenCalls
    /\ \E in \in StreamReads(gcode_reader, input) : Fetch(block_buffer_count, in)
    /\ pc' = "reader"
    /\ UNCHANGED around

\* The caller calls ReadLine(): one pass of its while loop per step
\* ("readline" while the loop goes on).
ReadLinePass ==
    /\ BetweenCalls \/ pc = "readline"
    /\ IF is_eof(gcode_reader)
         THEN /\ lines' = <<>>
              /\ pc' = "line"
              /\ UNCHANGED source
         ELSE /\ \E in \in StreamReads(gcode_reader, input) : Fetch(1, in)
              /\ pc' = IF lines' = <<>> THEN "readline" ELSE "line"
    /\ UNCHANGED around

\* The other outcome of a store behind the buffer: the process is stopped
\* at the store (a guard page, a hardened allocator, a sanitizer build).
StoreFaults ==
    /\ BetweenCalls \/ pc = "readline"
    /\ StoresBehindBuffer(gcode_reader)
    /\ pc' = "crashed"
    /\ UNCHANGED <<around, source, lines>>

ReaderNext ==
    \/ CallReadNextLines
    \/ ReadLinePass
    \/ StoreFaults

ReaderSpec == ReaderInit /\ [][ReaderNext]_vars

\* The caller's loop "while (!is_eof())" is over.
Exhausted == pc # "crashed" /\ is_eof(gcode_reader)

\* Every line of the stream, terminator included, fits into the buffer.
FitsBuffer ==
    \A i \in 1..Len(SplitLines(gcode_file)) :
        Len(SplitLines(gcode_file)[i]) < gcode_reader.buffer_size_

\* C15 (as claimed): a ReadNextLines(n) call returns at most n blocks, for
\* every n, n = 0 included, and in every state of the reader.
C15_AtMostN ==
    pc = "reader" => Len(lines) <= block_buffer_count

\* The blocks a caller gets that calls ReadNextLines(n) until is_eof(),
\* every read() returning as many bytes as it was asked for.
RECURSIVE Drain(_, _, _, _)
Drain(rd, remaining, n, blocks) ==
    IF is_eof(rd)
      THEN blocks
      ELSE LET k   == Min({ReadCount(rd), Len(remaining)})
               in  == IF k = 0 THEN ReadEof ELSE ReadData(SubSeq(remaining, 1, k))
               got == ReadNextLines(rd, n, in)
               rest == IF NeedsRead(rd) /\ in.r > 0
                         THEN SubSeq(remaining, in.r + 1, Len(remaining))
                         ELSE remaining
           IN  Drain(got.reader, rest, n,
                     blocks \o [i \in 1..Len(got.result) |->
                                   ViewText(got.reader.buffer, got.result[i])])

\* C16 (as claimed): for every byte stream, every batch size n >= 1 and
\* every way read() splits the stream, the blocks delivered until is_eof()
\* are the same, in the same order, whatever the buffer size, lines as long
\* as or longer than the buffer included.
C16_SameForEveryBufferSize ==
    (Exhausted /\ block_buffer_count >= 1) =>
        \A other_size \in 1..MaxReaderBufferSize :
            produced = Drain(NewReader(other_size, gcode_reader.remove_comments_),
                             gcode_file, block_buffer_count, <<>>)

\* C17 (as claimed): for every input the blocks delivered until exhaustion
\* are, in order, the input's lines, each cut at its first ';' (when
\* comments are removed) and trimmed of leading and trailing whitespace,
\* empty results left out: nothing is lost, doubled, reordered or merged.
C17_ContentPreserved ==
    Exhausted => produced = CleanLines(gcode_file, gcode_reader.remove_comments_)

\* A block in canonical form: content of at least one byte that neither
\* begins nor ends with whitespace, then exactly one '\n'; no other '\n' and
\* no '\r'; no ';' when comments are removed.
Canonical(block, remove_comments) ==
    /\ Len(block) >= 2
    /\ block[Len(block)] = "\n"
    /\ \A i \in 1..(Len(block) - 1) : block[i] \notin {"\n", "\r"}
    /\ ~isspace(block[1])
    /\ ~isspace(block[Len(block) - 1])
    /\ remove_comments => \A i \in 1..Len(block) : block[i] # ";"

\* C18: every block ReadNextLines or ReadLine returns is in canonical form,
\* both when it is returned and as the caller sees it in the buffer after
\* the call, and a stream whose lines hold only whitespace and comments
\* yields no block at all.
C18_BlocksCanonical ==
    /\ \A i \in 1..Len(lines) :
          Canonical(ViewText(gcode_reader.buffer, lines[i]),
                    gcode_reader.remove_comments_)
    /\ \A i \in 1..Len(produced) :
          Canonical(produced[i], gcode_reader.remove_comments_)
    /\ pc = "line" => Len(lines) <= 1
    /\ CleanLines(gcode_file, gcode_reader.remove_comments_) = <<>>
          => produced = <<>>

\* C18 witness: ReadLine has returned the last block of the stream with a
\* blank-padded block, a comment, a blank line and a comment line; the two
\* blocks with content came out, cleaned.
C18_Witness ==
    /\ pc = "line"
    /\ Exhausted
    /\ gcode_reader.remove_comments_
    /\ gcode_file = <<" ", "a", ";", "\n", "\n", ";", "x", "\n", "b">>
    /\ produced = << <<"a", "\n">>, <<"b", "\n">> >>
    /\ Len(lines) = 1

\* The stream with every "\r\n" and every lone '\r' replaced by '\n'.
RECURSIVE LfVariant(_)
LfVariant(bytes) ==
    IF bytes = <<>>
      THEN <<>>
    ELSE IF Len(bytes) >= 2 /\ bytes[1] = "\r" /\ bytes[2] = "\n"
      THEN <<"\n">> \o LfVariant(SubSeq(bytes, 3, Len(bytes)))
    ELSE IF bytes[1] = "\r"
      THEN <<"\n">> \o LfVariant(SubSeq(bytes, 2, Len(bytes)))
    ELSE <<bytes[1]>> \o LfVariant(SubSeq(bytes, 2, Len(bytes)))

\* C19: a stream whose lines end in "\r\n" or in a lone '\r' yields, however
\* read() splits it, byte for byte the blocks of the same stream with '\n'
\* line ends, and when the lines fit the buffer that is exactly one block
\* per line with content.
C19_TerminatorsCanonical ==
    Exhausted =>
        /\ produced = Drain(NewReader(gcode_reader.buffer_size_,
                                      gcode_reader.remove_comments_),
                            LfVariant(gcode_file), 1, <<>>)
        /\ FitsBuffer =>
              Len(produced) = Len(CleanLines(LfVariant(gcode_file),
                                             gcode_reader.remove_comments_))

\* C19 witness: the stream "ab\r\nc\n" was read through a buffer of three
\* bytes, so that '\r' and '\n' came in different refills, and gave the
\* two blocks "ab\n" and "c\n".
C19_Witness ==
    /\ Exhausted
    /\ gcode_reader.buffer_size_ = 3
    /\ gcode_file = <<"a", "b", "\r", "\n", "c", "\n">>
    /\ produced = << <<"a", "b", "\n">>, <<"c", "\n">> >>

\* The stream ends with a line that has content but no terminator.
HasOpenLastLine ==
    /\ gcode_file # <<>>
    /\ gcode_file[Len(gcode_file)] \notin {"\n", "\r"}
    /\ CleanLine(SplitLines(gcode_file)[Len(SplitLines(gcode_file))],
                 gcode_reader.remove_comments_) # <<>>

\* That line as a block.
LastBlock ==
    Append(CleanLine(SplitLines(gcode_file)[Len(SplitLines(gcode_file))],
                     gcode_reader.remove_comments_), "\n")

\* C20 (as claimed): a last line with content but without terminator is
\* delivered as a block, closed by one '\n', by the call that detects the
\* end of the stream, and no call after that delivers anything.
C20_OpenLastLineOnce ==
    [][ HasOpenLastLine =>
          /\ (~is_eof(gcode_reader) /\ is_eof(gcode_reader'))
                => /\ produced' = Append(produced, LastBlock)
                   /\ lines' # <<>>
                   /\ ViewText(gcode_reader'.buffer, lines'[Len(lines')]) = LastBlock
          /\ is_eof(gcode_reader) => produced' = produced ]_vars

\* ------------------------------------------------------------------------
\* Empty results, end of stream and ReadLine
\* ------------------------------------------------------------------------

\* A step in which a ReadNextLines(n) call with n >= 1 returns no block.
EmptyReturn ==
    /\ BetweenCalls
    /\ pc' = "reader"
    /\ block_buffer_count >= 1
    /\ lines' = <<>>

\* C21 (as claimed): ReadNextLines(n) with n >= 1 returns an empty result
\* only when the stream is exhausted.
C21_EmptyOnlyWhenExhausted ==
    [][EmptyReturn => is_eof(gcode_reader')]_vars

\* C21 (amended): ReadNextLines(n) with n >= 1 returns an empty result only
\* when it has gone through everything the buffer held, so that the next
\* call starts with a refill: the stream is exhausted, or the bytes read so
\* far end in an unfinished line, or they hold only blank and comment
\* lines.  Once is_eof() is true every call returns an empty result.
C21_EmptyOnlyWhenBufferDrained ==
    [][ /\ EmptyReturn =>
              gcode_reader'.data_begin_ >= gcode_reader'.data_end_
        /\ (is_eof(gcode_reader) /\ pc # "crashed") => lines' = <<>> ]_vars

\* C21 witness: a ReadNextLines(1) call has returned without a block while
\* the stream is not exhausted, the bytes of an unfinished line being kept
\* as the remainder.
C21_Witness ==
    /\ pc = "reader"
    /\ block_buffer_count = 1
    /\ lines = <<>>
    /\ ~is_eof(gcode_reader)
    /\ gcode_reader.remainder_.len > 0
    /\ input # <<>>

\* C22 (as claimed): with calls of ReadNextLines(n >= 1) and ReadLine(),
\* is_eof() is true only once the stream has reported its end and the buffer
\* is drained; from then on no call delivers a block, so that a caller
\* looping on is_eof() has got every block of the stream.
C22_EofMeansAllDelivered ==
    (Exhausted /\ block_buffer_count >= 1) =>
        /\ input = <<>>
        /\ gcode_reader.data_begin_ >= gcode_reader.data_end_
        /\ gcode_reader.remainder_.len = 0
        /\ produced = CleanLines(gcode_file, gcode_reader.remove_comments_)

\* The blocks delivered so far are the first blocks of the stream.
DeliveredInOrder ==
    LET all == CleanLines(gcode_file, gcode_reader.remove_comments_)
    IN  /\ Len(produced) <= Len(all)
        /\ \A i \in 1..Len(produced) : produced[i] = all[i]

\* C24 (as claimed): ReadLine() returns the next block of the stream
\* whenever one remains and an empty view only when the stream is exhausted
\* (is_eof() is true and no block remains).
C24_ReadLineReturnsNextBlock ==
    (pc = "line" /\ block_buffer_count >= 1) =>
        /\ DeliveredInOrder
        /\ Len(lines) <= 1
        /\ lines # <<>> =>
              ViewText(gcode_reader.buffer, lines[1]) = produced[Len(produced)]
        /\ lines = <<>> =>
              /\ is_eof(gcode_reader)
              /\ input = <<>>
              /\ produced = CleanLines(gcode_file, gcode_reader.remove_comments_)

\* ------------------------------------------------------------------------
\* The line reader over a descriptor whose read() can fail
\* ------------------------------------------------------------------------

\* The caller calls ReadNextLines(block_buffer_count) and the read() of its
\* Refill returns -1.
ReadFails ==
    /\ BetweenCalls
    /\ NeedsRead(gcode_reader)
    /\ Fetch(block_buffer_count, ReadErr)
    /\ pc' = "reader"
    /\ UNCHANGED around

FaultyReaderNext ==
    \/ CallReadNextLines
    \/ ReadLinePass
    \/ StoreFaults
    \/ ReadFails

FaultyReaderSpec == ReaderInit /\ [][FaultyReaderNext]_vars

\* The unfinished line the reader holds back, cleaned, as the sequence of
\* blocks it makes (one, or none if nothing is left of it).
PendingBlocks(rd) ==
    LET content == CleanLine(ViewText(rd.buffer, rd.remainder_), rd.remove_comments_)
    IN  IF content = <<>> THEN <<>> ELSE <<Append(content, "\n")>>

\* C23: once a read() has returned end-of-stream or an error the reader
\* stays at eof, issues no further read (nothing more is taken from the
\* descriptor and no error is reported again) and delivers nothing more;
\* the call in which that happens delivers the unfinished line held back,
\* if it has content, after an error as after the end of the stream.
C23_EofIsPermanent ==
    [][ /\ is_eof(gcode_reader) =>
              /\ is_eof(gcode_reader')
              /\ input' = input
              /\ produced' = produced
              /\ ~NeedsRead(gcode_reader)
              /\ ~Refill(gcode_reader, ReadErr).perror
        /\ (~is_eof(gcode_reader) /\ is_eof(gcode_reader')) =>
              /\ input' = input
              /\ produced' = produced \o PendingBlocks(gcode_reader)
              /\ gcode_reader'.remainder_.len = 0 ]_vars

\* C23 witness: the read() after the bytes "ab" of the stream "abc\nd" has
\* failed; the reader is at eof, has delivered the block "ab\n" and has
\* left the rest of the stream unread.
C23_Witness ==
    /\ is_eof(gcode_reader)
    /\ gcode_reader.buffer_size_ = 4
    /\ gcode_file = <<"a", "b", "c", "\n", "d">>
    /\ input = <<"c", "\n", "d">>
    /\ produced = << <<"a", "b", "\n">> >>

\* ------------------------------------------------------------------------
\* OpenMachineConnection (machine-connection.cc)
\* ------------------------------------------------------------------------

\* The connection descriptors explored: a device path alone, with a speed,
\* with a speed lacking its 'b', with a word behind the speed, with a speed
\* no tty supports, with flow control settings, with an unknown word; a
\* host with and without port; and "-".
Descriptors ==
    { <<"/", "t">>,
      <<"/", "t", ",", "b", "9", "6", "0", "0">>,
      <<"/", "t", ",", "9", "6", "0", "0">>,
      <<"/", "t", ",", "b", "9", "6", "0", "0", ",", "x">>,
      <<"/", "t", ",", "b", "9", "9", "9", "9", "9", "9", "9", "9", "9">>,
      <<"/", "t", ",", "+", "c", "r", "t", "s", "c", "t", "s">>,
      <<"/", "t", ",", "b", "1", "1", "5", "2", "0", "0", ",", "-", "c", "r", "t", "s", "c", "t", "s">>,
      <<"/", "t", ",", "x">>,
      <<"h", ":", "4", "4", "4", "4">>,
      <<"h">>,
      <<"-">> }

\* strchrnul(s, c) - s: the index of the first c in s, Len(s) + 1 if none.
strchrnul(str, c) ==
    LET hits == {i \in 1..Len(str) : str[i] = c}
    IN  IF hits = {} THEN Len(str) + 1 ELSE Min(hits)

\* const std::string path(descriptor, comma)
PathPart(str) == SubSeq(str, 1, strchrnul(str, ",") - 1)

\* *comma ? comma + 1 : ""
ParamPart(str) == SubSeq(str, strchrnul(str, ",") + 1, Len(str))

DigitChars == {"0", "1", "2", "3", "4", "5", "6", "7", "8", "9"}

DigitValue(c) ==
    CASE c = "0" -> 0 [] c = "1" -> 1 [] c = "2" -> 2 [] c = "3" -> 3
      [] c = "4" -> 4 [] c = "5" -> 5 [] c = "6" -> 6 [] c = "7" -> 7
      [] c = "8" -> 8 [] c = "9" -> 9

\* The number the leading digits of str spell, continuing from acc.
RECURSIVE DigitsValue(_, _)
DigitsValue(str, acc) ==
    IF str = <<>> \/ str[1] \notin DigitChars
      THEN acc
      ELSE DigitsValue(Tail(str), acc * 10 + DigitValue(str[1]))

\* atoi(): leading whitespace, an optional sign, then digits up to the
\* first other byte; 0 if there are no digits.
RECURSIVE atoi(_)
atoi(str) ==
    IF str = <<>> THEN 0
    ELSE IF isspace(str[1]) THEN atoi(Tail(str))
    ELSE IF str[1] = "-" THEN 0 - DigitsValue(Tail(str), 0)
    ELSE IF str[1] = "+" THEN DigitsValue(Tail(str), 0)
    ELSE DigitsValue(str, 0)

\* The speeds of the switch in SetTTYParams.
SupportedSpeeds == {9600, 19200, 38400, 57600, 115200, 230400, 460800}

\* The first part of SetTTYParams: an optional 'b' or 'B' is skipped; if
\* anything follows, atoi() of it must be a supported speed.
SpeedAccepted(params) ==
    LET number == IF params # <<>> /\ params[1] \in {"b", "B"}
                    THEN Tail(params) ELSE params
    IN  number = <<>> \/ atoi(number) \in SupportedSpeeds

\* OpenTCPSocket: the host is what stands before the first ':' and the port
\* what stands behind it, "8888" without a ':'.
HostPart(str) == SubSeq(str, 1, strchrnul(str, ":") - 1)

PortPart(str) ==
    IF strchrnul(str, ":") > Len(str)
      THEN <<"8", "8", "8", "8">>
      ELSE SubSeq(str, strchrnul(str, ":") + 1, Len(str))

\* The lowest descriptor free in a process that holds 0, 1, 2 and fds.
NextFd(held) == Cardinality(held) + Cardinality({"stdin", "stdout", "stderr"})

\* The descriptor of the given kind among those held.
FdOf(held, kind) == (CHOOSE f \in held : f.kind = kind).fd

\* One more entry in the history of calls.
Called(call, arg, ok) ==
    calls' = Append(calls, [call |-> call, arg |-> arg, ok |-> ok])

\* What OpenMachineConnection does not touch.
beside_opening ==
    <<is_dry_run, use_ok_flow_control, block_buffer_count, interactive,
      gcode_file, machine_open, source, device, lines, request, line_no,
      reply, ending, written, answered, continued, discards, draining,
      waiting>>

\* The rest of the program while one of its functions is exercised alone.
MainAtRest ==
    /\ is_dry_run = TRUE
    /\ use_ok_flow_control = FALSE
    /\ block_buffer_count = 1
    /\ interactive = FALSE
    /\ gcode_file = <<>>
    /\ machine_open = FALSE
    /\ gcode_reader = NewReader(GcodeBufferSize, TRUE)
    /\ input = <<>>
    /\ response_reader = NewReader(ResponseBufferSize, FALSE)
    /\ response_reads = 0
    /\ received = <<>>
    /\ lines = <<>>
    /\ request = 0
    /\ line_no = 0
    /\ response = "none"
    /\ return_message = <<>>
    /\ ack_msg = <<>>
    /\ exit_status = -1
    /\ produced = <<>>
    /\ written = <<>>
    /\ answered = <<>>
    /\ continued = {}
    /\ discards = 0
    /\ events = "running"

\* OpenMachineConnection(descriptor) is entered.
OpenInit ==
    /\ pc = "OpenTTY"
    /\ descriptor \in Descriptors
    /\ fds = {}
    /\ conn_fd = -1
    /\ calls = <<>>
    /\ NotDraining
    /\ NotWaiting
    /\ MainAtRest

\* The function returns fd.
Return(fd) ==
    /\ conn_fd' = fd
    /\ pc' = "returned"

\* OpenTTY: open(path, O_RDWR | O_NOCTTY | O_SYNC).  If it fails OpenTTY
\* returns -1 and OpenMachineConnection goes on to OpenTCPSocket.
OpenPath ==
    /\ pc = "OpenTTY"
    /\ \E ok \in BOOLEAN :
          /\ Called("open", PathPart(descriptor), ok)
          /\ IF ok
               THEN /\ fds' = fds \cup {[fd |-> NextFd(fds), kind |-> "tty"]}
                    /\ pc' = "SetTTYParams"
               ELSE /\ pc' = "OpenTCPSocket"
                    /\ UNCHANGED fds
    /\ UNCHANGED <<descriptor, conn_fd, beside_opening>>

\* SetTTYParams, the speed: on an invalid speed it prints "Invalid speed"
\* and returns false; OpenTTY then returns -1 without closing fd, and
\* OpenMachineConnection goes on to OpenTCPSocket.
CheckSpeed ==
    /\ pc = "SetTTYParams"
    /\ IF SpeedAccepted(ParamPart(descriptor))
         THEN /\ pc' = "tcgetattr"
              /\ UNCHANGED calls
         ELSE /\ Called("fprintf", <<"Invalid speed">>, TRUE)
              /\ pc' = "OpenTCPSocket"
    /\ UNCHANGED <<descriptor, fds, conn_fd, beside_opening>>

\* SetTTYParams, tcgetattr(fd, &tty): on failure false is returned, with
\* the same consequences.
GetAttributes ==
    /\ pc = "tcgetattr"
    /\ \E ok \in BOOLEAN :
          /\ Called("tcgetattr", <<FdOf(fds, "tty")>>, ok)
          /\ pc' = IF ok THEN "tcsetattr" ELSE "OpenTCPSocket"
    /\ UNCHANGED <<descriptor, fds, conn_fd, beside_opening>>

\* SetTTYParams, tcsetattr(fd, TCSANOW, &tty): on success OpenTTY and
\* OpenMachineConnection return fd; on failure as above.
SetAttributes ==
    /\ pc = "tcsetattr"
    /\ \E ok \in BOOLEAN :
          /\ Called("tcsetattr", <<FdOf(fds, "tty")>>, ok)
          /\ IF ok
               THEN Return(FdOf(fds, "tty"))
               ELSE pc' = "OpenTCPSocket" /\ UNCHANGED conn_fd
    /\ UNCHANGED <<descriptor, fds, beside_opening>>

\* OpenTCPSocket(descriptor): getaddrinfo(host, port, ...); if it fails, or
\* yields no address, -1 is returned.
Resolve ==
    /\ pc = "OpenTCPSocket"
    /\ \E ok \in BOOLEAN :
          /\ Called("getaddrinfo", <<HostPart(descriptor), PortPart(descriptor)>>, ok)
          /\ IF ok
               THEN pc' = "socket" /\ UNCHANGED conn_fd
               ELSE Return(-1)
    /\ UNCHANGED <<descriptor, fds, beside_opening>>

\* socket(...): if it fails, connect() is skipped and -1 returned.
MakeSocket ==
    /\ pc = "socket"
    /\ \E ok \in BOOLEAN :
          /\ Called("socket", <<>>, ok)
          /\ IF ok
               THEN /\ fds' = fds \cup {[fd |-> NextFd(fds), kind |-> "socket"]}
                    /\ pc' = "connect"
                    /\ UNCHANGED conn_fd
               ELSE /\ Return(-1)
                    /\ UNCHANGED fds
    /\ UNCHANGED <<descriptor, beside_opening>>

\* connect(fd, ...): on failure the socket is closed and -1 returned,
\* otherwise fd is returned.
Connect ==
    /\ pc = "connect"
    /\ \E ok \in BOOLEAN :
          /\ Called("connect", <<FdOf(fds, "socket")>>, ok)
          /\ IF ok
               THEN /\ Return(FdOf(fds, "socket"))
                    /\ UNCHANGED fds
               ELSE /\ Return(-1)
                    /\ fds' = {f \in fds : f.kind # "socket"}
    /\ UNCHANGED <<descriptor, beside_opening>>

OpenNext ==
    \/ OpenPath
    \/ CheckSpeed
    \/ GetAttributes
    \/ SetAttributes
    \/ Resolve
    \/ MakeSocket
    \/ Connect

OpenSpec == OpenInit /\ [][OpenNext]_vars

\* The calls of the given name made so far, by outcome.
Did(call) == \E i \in 1..Len(calls) : calls[i].call = call

DidOk(call) == \E i \in 1..Len(calls) : calls[i].call = call /\ calls[i].ok

Failed(call) == \E i \in 1..Len(calls) : calls[i].call = call /\ ~calls[i].ok

\* Configuring the opened device went wrong.
ConfigurationError ==
    \/ Did("fprintf")
    \/ Failed("tcgetattr")
    \/ Failed("tcsetattr")

\* The TCP transport has been attempted.
TcpAttempted == Did("getaddrinfo") \/ Did("socket") \/ Did("connect")

\* C25: the path part of the descriptor is opened as a device first; TCP,
\* with the host before the ':' and port 8888 when none is given, is tried
\* only if that path could not be opened; and when resolution or connect
\* fails the call returns -1 with no socket left open.
C25_TcpOnlyWhenPathCannotBeOpened ==
    /\ calls # <<>> =>
          calls[1].call = "open" /\ calls[1].arg = PathPart(descriptor)
    /\ TcpAttempted => Failed("open")
    /\ \A i \in 1..Len(calls) :
          calls[i].call = "getaddrinfo" =>
              calls[i].arg = <<HostPart(descriptor), PortPart(descriptor)>>
    /\ (pc = "returned" /\ (Failed("getaddrinfo") \/ Failed("connect"))) =>
          conn_fd = -1 /\ ~(\E f \in fds : f.kind = "socket")

\* C26: once the device path has been opened, an invalid speed, an unknown
\* parameter or a failing tcgetattr/tcsetattr makes the open fail and TCP
\* is not attempted.
C26_ConfigurationErrorIsFatal ==
    (DidOk("open") /\ ConfigurationError) =>
        /\ ~TcpAttempted
        /\ pc = "returned" => conn_fd = -1

\* C27: when the path opens but the speed is unsupported, the open has
\* failed on return and no descriptor opened on the way is still open.
C27_NothingLeftOpenAfterBadSpeed ==
    (pc = "returned" /\ DidOk("open") /\ Did("fprintf")) =>
        conn_fd = -1 /\ fds = {}

\* The comma-separated tokens of a parameter list.
RECURSIVE Tokens(_)
Tokens(params) ==
    IF params = <<>> THEN <<>>
    ELSE IF strchrnul(params, ",") > Len(params) THEN <<params>>
    ELSE <<PathPart(params)>> \o Tokens(ParamPart(params))

\* b<digits> or B<digits> naming a supported speed, or [+|-]crtscts.
TokenValid(token) ==
    \/ /\ Len(token) > 1
       /\ token[1] \in {"b", "B"}
       /\ \A i \in 2..Len(token) : token[i] \in DigitChars
       /\ DigitsValue(Tail(token), 0) \in SupportedSpeeds
    \/ token \in { <<"c", "r", "t", "s", "c", "t", "s">>,
                   <<"+", "c", "r", "t", "s", "c", "t", "s">>,
                   <<"-", "c", "r", "t", "s", "c", "t", "s">> }

ParamsValid(params) ==
    \A i \in 1..Len(Tokens(params)) : TokenValid(Tokens(params)[i])

\* C28: when the path opens and the parameter list holds a token that is
\* neither a supported b<digits> speed nor [+|-]crtscts, the open fails
\* with a configuration error.
C28_UnknownTokenFailsOpen ==
    (pc = "returned" /\ DidOk("open") /\ ~ParamsValid(ParamPart(descriptor))) =>
        conn_fd = -1 /\ ConfigurationError

\* C29: for the descriptor "-" no device is opened and no host is resolved
\* or connected to.
C29_DashOpensNothing ==
    descriptor = <<"-">> => ~Did("open") /\ ~TcpAttempted

\* ------------------------------------------------------------------------
\* DiscardPendingInput (machine-connection.cc)
\* ------------------------------------------------------------------------

\* char buf[128]
DiscardBufferSize == 128

\* The longest time between two bytes: just over the longest timeout.
MaxGap == MaxTimeoutMs * TicksPerMs + 1

\* The bytes on their way: for each, the time after the one before it (for
\* the first: from now) at which it becomes readable.
Wires ==
    UNION { [1..n -> 1..MaxGap] : n \in 0..MaxArrivals }

\* What DiscardPendingInput does not touch.
beside_draining ==
    <<is_dry_run, use_ok_flow_control, block_buffer_count, interactive,
      gcode_file, machine_open, source, device, lines, request, line_no,
      reply, ending, written, answered, continued, discards, opening,
      waiting>>

\* DiscardPendingInput(fd, timeout_ms, echo) is entered, on the descriptor
\* OpenMachineConnection returned; main() accepts every -s value >= 0.
DiscardInit ==
    /\ pc = "DiscardPendingInput"
    /\ descriptor = <<>>
    /\ calls = <<>>
    /\ conn_fd \in {-1, NextFd({})}
    /\ fds = IF conn_fd < 0 THEN {} ELSE {[fd |-> conn_fd, kind |-> "tty"]}
    /\ timeout_ms \in 0..MaxTimeoutMs
    /\ tv = 0
    /\ total_bytes = 0
    /\ pending \in IF conn_fd < 0 THEN {0} ELSE {0, 1}
    /\ wire \in IF conn_fd < 0 THEN {<<>>} ELSE Wires
    /\ hangup = FALSE
    /\ quiet = 0
    /\ NotWaiting
    /\ MainAtRest

\* if (fd < 0) return 0;
EnterDiscard ==
    /\ pc = "DiscardPendingInput"
    /\ pc' = IF conn_fd < 0 THEN "returned" ELSE "AwaitReadReady"
    /\ UNCHANGED <<draining, beside_draining>>

\* AwaitReadReady: tv.tv_sec = 0; tv.tv_usec = timeout_millis * 1000.
StartWait ==
    /\ pc = "AwaitReadReady"
    /\ tv' = timeout_ms * TicksPerMs
    /\ pc' = "select"
    /\ UNCHANGED <<timeout_ms, total_bytes, pending, wire, hangup, quiet,
                   beside_draining>>

\* Time passes in select(): nothing is readable and time is left.  The
\* byte that is due becomes readable.
Tick ==
    /\ pc = "select"
    /\ pending = 0
    /\ ~hangup
    /\ tv > 0
    /\ tv' = tv - 1
    /\ IF wire # <<>> /\ wire[1] = 1
         THEN /\ pending' = pending + 1
              /\ wire' = Tail(wire)
              /\ quiet' = 0
         ELSE /\ wire' = IF wire = <<>> THEN wire
                         ELSE <<wire[1] - 1>> \o Tail(wire)
              /\ quiet' = quiet + 1
              /\ UNCHANGED pending
    /\ UNCHANGED <<pc, timeout_ms, total_bytes, hangup, beside_draining>>

\* select() returns, the descriptor readable or the time used up, with the
\* time left in tv; AwaitReadReady returns tv.tv_usec / 1000; the loop of
\* DiscardPendingInput goes on to read() if that is > 0 and otherwise
\* returns total_bytes.
SelectReturns ==
    /\ pc = "select"
    /\ pending > 0 \/ hangup \/ tv = 0
    /\ pc' = IF tv \div TicksPerMs > 0 THEN "read" ELSE "returned"
    /\ UNCHANGED <<draining, beside_draining>>

\* select() fails: AwaitReadReady returns -1, the loop ends and
\* total_bytes is returned.
SelectFails ==
    /\ pc = "select"
    /\ pc' = "interrupted"
    /\ UNCHANGED <<draining, beside_draining>>

\* r = read(fd, buf, sizeof(buf)): what is readable, 0 after a hangup;
\* total_bytes += r.  If r < 0, -1 is returned.
ReadPending ==
    /\ pc = "read"
    /\ \E ok \in BOOLEAN :
          IF ok
            THEN LET r == Min({pending, DiscardBufferSize})
                 IN  /\ total_bytes' = total_bytes + r
                     /\ pending' = pending - r
                     /\ pc' = "AwaitReadReady"
            ELSE /\ pc' = "failed"
                 /\ UNCHANGED <<total_bytes, pending>>
    /\ UNCHANGED <<timeout_ms, tv, wire, hangup, quiet, beside_draining>>

\* The other end closes the connection once all its bytes have arrived.
HangUp ==
    /\ pc \in {"AwaitReadReady", "select", "read"}
    /\ wire = <<>>
    /\ ~hangup
    /\ hangup' = TRUE
    /\ UNCHANGED <<pc, timeout_ms, tv, total_bytes, pending, wire, quiet,
                   beside_draining>>

DiscardNext ==
    \/ EnterDiscard
    \/ StartWait
    \/ Tick
    \/ SelectReturns
    \/ SelectFails
    \/ ReadPending
    \/ HangUp

DiscardSpec == DiscardInit /\ [][DiscardNext]_vars

\* C30: for every timeout_ms >= 0, when DiscardPendingInput returns from
\* its loop no byte is pending on the input, and for timeout_ms no byte
\* has become readable.
C30_ReturnsOnlyAfterSilence ==
    (pc = "returned" /\ conn_fd >= 0) =>
        /\ pending = 0
        /\ quiet >= timeout_ms * TicksPerMs

\* DiscardPendingInput is over: by the loop test, after select() failed,
\* after read() failed.
DiscardOver == pc \in {"returned", "interrupted", "failed"}

\* The value DiscardPendingInput returns: -1 from inside the loop when
\* read() failed, otherwise total_bytes (0 for fd < 0).
DiscardResult == IF pc = "failed" THEN -1 ELSE total_bytes

\* C31: DiscardPendingInput returns a negative value whenever select() or
\* read() failed during the drain, and otherwise the number of bytes it
\* read.
C31_NegativeOnEveryError ==
    /\ pc \in {"interrupted", "failed"} => DiscardResult < 0
    /\ pc = "returned" => DiscardResult = total_bytes /\ DiscardResult >= 0

\* DiscardPendingInput with a scheduler that lets the call proceed: each of
\* its steps is taken when it stays possible.  Failures and the hangup are
\* up to the environment.
DiscardLiveSpec ==
    /\ DiscardInit
    /\ [][DiscardNext]_vars
    /\ WF_vars(EnterDiscard)
    /\ WF_vars(StartWait)
    /\ WF_vars(Tick)
    /\ WF_vars(SelectReturns)
    /\ WF_vars(ReadPending)

\* C34: once the device sends no more, the peer having closed the
\* connection included, DiscardPendingInput returns.
C34_ReturnsWhenDeviceStops ==
    (wire = <<>>) ~> DiscardOver

\* ------------------------------------------------------------------------
\* WaitForOkAck (machine-connection.cc)
\* ------------------------------------------------------------------------

\* What the descriptor delivers before its end: nothing, an 'ok' line with
\* either terminator, after an empty line, after a message, an error line,
\* lines the stream ends in the middle of.
AckStreams ==
    { <<>>,
      <<"o", "k", "\n">>,
      <<"O", "K", "\r">>,
      <<"\n", "o", "k", "\n">>,
      <<"x", "\n", "o", "k", "\n">>,
      <<"e", "r", "r", "o", "r", "\n">>,
      <<"E", "r", "r", "o", "r">>,
      <<"o", "k">>,
      <<"o">>,
      <<"x", "\n">>,
      <<"o", "k", " ", "1", "\n">>,
      <<"\r", "\n">> }

\* What WaitForOkAck does not touch.
beside_waiting ==
    <<is_dry_run, use_ok_flow_control, block_buffer_count, interactive,
      gcode_file, machine_open, source, device, lines, request, line_no,
      reply, ending, written, answered, continued, discards, opening,
      draining>>

\* WaitForOkAck(fd, print_errors, errors_on_new_line) is entered.
WaitInit ==
    /\ pc = "WaitForOkAck"
    /\ fd_stream \in AckStreams
    /\ buffer = <<>>
    /\ ch = NUL
    /\ bytes_read = 0
    /\ print_errors \in BOOLEAN
    /\ ok_ack = FALSE
    /\ at_eof = FALSE
    /\ NotOpening
    /\ NotDraining
    /\ MainAtRest

\* for (;;) { got_chars = ReadLine(fd, buffer, sizeof(buffer), false):
\* ReadLine starts with bytes_read = 0, c = 0, at the start of buffer.
CallReadLine ==
    /\ pc = "WaitForOkAck"
    /\ buffer' = <<>>
    /\ ch' = NUL
    /\ bytes_read' = 0
    /\ pc' = "ReadLine"
    /\ UNCHANGED <<fd_stream, print_errors, ok_ack, at_eof, beside_waiting>>

\* while (c != '\n' && c != '\r' && bytes_read < len-1)
ReadLineLoops == ch \notin {"\n", "\r"} /\ bytes_read < AckBufferSize - 1

\* One pass of the loop of ReadLine: read(fd, &c, 1).  A negative result
\* makes ReadLine return -1 and WaitForOkAck return false.  Otherwise, the
\* byte read or, at the end of the stream, none (c keeps its value),
\* ++bytes_read and *result++ = c.
ReadByte ==
    /\ pc = "ReadLine"
    /\ ReadLineLoops
    /\ \E r \in {-1, Min({1, Len(fd_stream)})} :
          IF r < 0
            THEN /\ ok_ack' = FALSE
                 /\ pc' = "returned"
                 /\ UNCHANGED <<fd_stream, buffer, ch, bytes_read, at_eof>>
            ELSE /\ ch' = IF r = 0 THEN ch ELSE Head(fd_stream)
                 /\ fd_stream' = IF r = 0 THEN fd_stream ELSE Tail(fd_stream)
                 /\ at_eof' = (at_eof \/ r = 0)
                 /\ bytes_read' = bytes_read + 1
                 /\ buffer' = Append(buffer, ch')
                 /\ UNCHANGED <<pc, ok_ack>>
    /\ UNCHANGED <<print_errors, beside_waiting>>

\* buffer[got_chars-1] = '\0'; while (got_chars && isspace(buffer[got_chars-1]))
\* { buffer[got_chars-1] = '\0'; got_chars--; }
RECURSIVE TrimTrailing(_, _)
TrimTrailing(buf, got_chars) ==
    IF got_chars > 0 /\ isspace(buf[got_chars])
      THEN TrimTrailing([buf EXCEPT ![got_chars] = NUL], got_chars - 1)
      ELSE [buffer |-> buf, got_chars |-> got_chars]

\* The characters of buffer up to its first '\0'.
RECURSIVE CString(_)
CString(buf) ==
    IF buf = <<>> \/ buf[1] = NUL THEN <<>>
    ELSE <<buf[1]>> \o CString(Tail(buf))

\* got_chars >= n && strncasecmp(buffer, word, n) == 0
StartsWith(buf, got_chars, word) ==
    got_chars >= Len(word) /\ hasPrefixIgnoreCase(CString(buf), word)

\* ReadLine returns bytes_read, and WaitForOkAck looks at the line: a lone
\* terminator is skipped, 'ok' returns true, anything else is printed if
\* print_errors is set, 'error' returns false, and the loop goes on.
LineRead ==
    /\ pc = "ReadLine"
    /\ ~ReadLineLoops
    /\ LET printed == IF print_errors
                        THEN TrimTrailing([buffer EXCEPT ![bytes_read] = NUL],
                                          bytes_read)
                        ELSE [buffer |-> buffer, got_chars |-> bytes_read]
       IN  IF bytes_read = 1 /\ buffer[1] \in {"\r", "\n"}
             THEN /\ pc' = "WaitForOkAck"
                  /\ UNCHANGED <<buffer, ok_ack>>
           ELSE IF StartsWith(buffer, bytes_read, <<"o", "k">>)
             THEN /\ ok_ack' = TRUE
                  /\ pc' = "returned"
                  /\ UNCHANGED buffer
           ELSE IF StartsWith(printed.buffer, printed.got_chars,
                              <<"e", "r", "r", "o", "r">>)
             THEN /\ ok_ack' = FALSE
                  /\ pc' = "returned"
                  /\ buffer' = printed.buffer
           ELSE /\ pc' = "WaitForOkAck"
                /\ buffer' = printed.buffer
                /\ UNCHANGED ok_ack
    /\ UNCHANGED <<fd_stream, ch, bytes_read, print_errors, at_eof,
                   beside_waiting>>

WaitNext ==
    \/ CallReadLine
    \/ ReadByte
    \/ LineRead

WaitSpec == WaitInit /\ [][WaitNext]_vars

\* WaitForOkAck with a scheduler that lets the call proceed.
WaitLiveSpec ==
    /\ WaitSpec
    /\ WF_vars(CallReadLine)
    /\ WF_vars(ReadByte)
    /\ WF_vars(LineRead)

\* C39: when the descriptor reaches its end (a read() returns 0) while
\* WaitForOkAck waits for an acknowledgment, it returns false.
C39_EofEndsTheWait ==
    at_eof ~> (pc = "returned" /\ ~ok_ack)

\* ------------------------------------------------------------------------
\* BufferedLineReader: memory
\* ------------------------------------------------------------------------

\* buffer_ <= data_begin_ <= data_end_ <= buffer_ + buffer_size_
WindowInsideBuffer(rd) ==
    /\ 0 <= rd.data_begin_
    /\ rd.data_begin_ <= rd.data_end_
    /\ rd.data_end_ <= rd.buffer_size_

\* The byte behind the allocation has never been stored to.
NothingStoredBehind(rd) == rd.buffer[rd.buffer_size_ + 1] = "?"

\* C35: after every operation of the reader its window lies inside the
\* buffer, and no store (bytes read, the newline closing the last line, the
\* newline of MakeCommentFreeLine) has gone outside the buffer.
C35_BufferSafety ==
    /\ pc # "crashed"
    /\ WindowInsideBuffer(gcode_reader)
    /\ NothingStoredBehind(gcode_reader)

\* The bytes WriteBlocks copies into scratch_buffer for a group of blocks.
RECURSIVE GroupBytes(_)
GroupBytes(group) ==
    IF group = <<>> THEN 0 ELSE Head(group).len + GroupBytes(Tail(group))

\* The blocks of a group follow one another in the buffer without overlap.
Disjoint(group) ==
    \A i, j \in 1..Len(group) :
        i < j => group[i].pos + group[i].len <= group[j].pos

\* C38: the blocks one ReadNextLines call returns do not overlap, and
\* together they are at most buffer_size bytes long, so that the group fits
\* the scratch buffer of buffer_size bytes.
C38_GroupFitsScratch ==
    pc = "reader" =>
        /\ Disjoint(lines)
        /\ GroupBytes(lines) <= gcode_reader.buffer_size_

\* ------------------------------------------------------------------------
\* main(): the end of the connection
\* ------------------------------------------------------------------------

\* ReadResponseLine has answered with the Error it makes up itself.
ConnectionClosedError ==
    /\ pc = "classified"
    /\ response = "kError"
    /\ return_message = ConnectionClosedMessage

\* C37: a response is the made-up 'connection closed' Error only when
\* ReadLine() obtained no line for it; a line received before the stream
\* ended, its terminator missing or not, is classified by its content.
C37_ClosedOnlyWithoutLine ==
    ConnectionClosedError => ack_msg = <<>>

\* main() has returned (return 0 at its end, return 1 after "Couldn't
\* write!" or "Failed to connect"), which destroys its local
\* std::unique_ptr<MachineConnection> machine.  exit(1) in
\* handle_error_or_exit ends the process without destroying the locals of
\* main().
ReturnedFromMain ==
    pc = "exit" /\ events \in {"finished", "write_failed", "open_failed"}

\* ~MachineConnection has run on the connection that was opened; it closes
\* the connection, once.
ClosedByProgram == machine_open /\ ReturnedFromMain

\* C32: when a run in which the connection was opened has ended, normally,
\* by a write failure or by an Error response in a non-interactive session,
\* the program has closed the connection.
C32_ClosedOnEveryEnd ==
    (/\ pc = "exit"
     /\ machine_open
     /\ events \in {"finished", "write_failed", "error_response"}) =>
        ClosedByProgram

\* The bytes a reader has taken from its descriptor and not handed out as
\* lines yet: its window and the remainder it keeps for the next Refill.
Unread(rd) ==
    ViewText(rd.buffer, [pos |-> rd.data_begin_,
                         len |-> rd.data_end_ - rd.data_begin_])
        \o ViewText(rd.buffer, rd.remainder_)

\* DiscardPendingInput read()s the descriptor; bytes the response reader
\* holds in its buffer have left the descriptor and do not pass through it.
UnseenByDiscard == Unread(response_reader)

\* C36: when the run has finished, the final discard pass done, no response
\* bytes of substance that the device sent in surplus have gone unobserved,
\* those the response reader had already read into its buffer included.
C36_SurplusSeenByFinalDiscard ==
    (pc = "exit" /\ events = "finished" /\ machine_open) =>
        ~NonBlank(UnseenByDiscard)

\* ------------------------------------------------------------------------
\* main(): the run comes to its end
\* ------------------------------------------------------------------------

\* The inputs of the runs followed to their end: two blocks, the first with
\* a CRLF line end, the last unterminated; and the empty input.
LiveFiles == { <<"a", "\r", "\n", "b">>, <<>> }

LiveInit == Init /\ gcode_file \in LiveFiles

\* main() waits in read() for a response the device does not send (in the
\* model: the reads explored are used up).
Starved ==
    /\ pc = "await"
    /\ use_ok_flow_control
    /\ ~is_eof(response_reader)
    /\ NeedsRead(response_reader)
    /\ response_reads >= MaxResponseReads

\* The steps of main() that neither read nor wait for anyone.
ProgramStep ==
    \/ OpenConnection
    \/ DiscardInitial
    \/ LoopDone
    \/ WriteGroup
    \/ NextRequest
    \/ HandleResponse
    \/ DiscardFinal

\* main() is inside ReadNextLines on the gcode input.
InReadGroup == pc = "loop" /\ ~is_eof(gcode_reader)

\* main() is inside ReadResponseLine and the device does not keep it
\* waiting.
InReadResponseLine == pc = "await" /\ ~Starved

\* main() as a running process: while it can take a step it takes one;
\* every discard pass, being one step, comes to its end; and it does not
\* stay forever inside a call of one of the two readers that can return
\* (weak fairness of ReadGroup and ReadResponseLine, both of which are
\* enabled exactly in these states and leave them after finitely many
\* steps).  What the operator does is up to the operator.
LiveSpec ==
    /\ LiveInit
    /\ [][Next]_vars
    /\ WF_vars(ProgramStep)
    /\ []<>(~InReadGroup)
    /\ []<>(~InReadResponseLine)

\* The connection could be opened and written to and has not been closed,
\* and the device has answered every block so far with Message lines and
\* one terminal ok, and goes on answering.
DeviceAnswers ==
    /\ events \notin {"open_failed", "write_failed"}
    /\ ~is_eof(response_reader)
    /\ EveryBlockOk
    /\ ~Starved

\* The run has reached its normal end: every block the reader produced was
\* written once, in order (unless it is a dry run), one terminal response
\* was taken per block, and the blocks are those of the input if it was
\* read to its end.
Completed ==
    /\ pc = "exit"
    /\ events = "finished"
    /\ exit_status = 0
    /\ line_no = Len(produced)
    /\ answered = [i \in 1..Len(produced) |-> [no |-> i, response |-> "kOk"]]
    /\ ~is_dry_run =>
          written = [i \in 1..Len(produced) |-> [no |-> i, text |-> produced[i]]]
    /\ input = <<>> => produced = CleanLines(gcode_file, TRUE)

\* C33: a run over a finite input, with a device that answers every block
\* with finitely many Message lines and one terminal ok and with discard
\* passes that come to an end, reaches the normal exit with every block
\* written once and one terminal response taken per block.
C33_RunCompletes == <>(Completed \/ ~DeviceAnswers)

\* C33 witness: a run with flow control over the two-block input has
\* completed; the device had sent a Message line before an ok.
C33_Witness ==
    /\ Completed
    /\ use_ok_flow_control
    /\ ~is_dry_run
    /\ Len(written) = 2
    /\ \E i \in 1..Len(received) : received[i] = "T"

====
